---- MODULE Spec2Model ----
(***************************************************************************)
(* Model of the export pipeline of Video-Musique (src-tauri/src):          *)
(*   - ffmpeg.rs : FFmpegProcessor (GPU capability cache, duration cache), *)
(*                 the filter-graph / command synthesizer                  *)
(*                 (build_export_command and its two helpers) and the      *)
(*                 export supervisor (export_project, cancel_export);      *)
(*   - models.rs : Project::get_active_tracks, Project::get_video_duration;*)
(*   - lib.rs    : AppState, the Mutex around the FFmpegProcessor.         *)
(*                                                                         *)
(* Times (clip durations, crossfades, modification times) are integers in  *)
(* a fixed unit. Filter-graph text is kept structured: a node is a record  *)
(* [op, ins, out, arg] and a tag such as "[va3]" is the record             *)
(* [s |-> "va", n |-> 3]; the un-numbered tags "[va]", "[mus]", "[aout]"   *)
(* carry n = NoIdx. Two tags are the same text iff they are the same       *)
(* record, because every numbered tag is a letter prefix followed by       *)
(* decimal digits only.                                                    *)
(***************************************************************************)
EXTENDS Integers, Sequences, FiniteSets, TLC

(***************************************************************************)
(* Bounds of the model.                                                    *)
(***************************************************************************)
\* export_project invocations in one behaviour
MaxExports == 2
\* unread progress lines the stdout pipe can hold
PipeCap == 1
\* clips / tracks / time values of the projects handed to the synthesizer
MaxClips == 3
MaxTracks == 3
MaxDur == 2
MaxCrossfade == 2
\* duration cache: clock range (in ticks), ticks per second of the clock,
\* and the durations a probe can report
MaxTick == 3
TicksPerSec == 2
MaxProbe == 2

Exports == 1..MaxExports
None == "none"

Min(S) == CHOOSE x \in S : \A y \in S : x <= y
Max2(a, b) == IF a >= b THEN a ELSE b
RECURSIVE SumTo(_, _)
\* f[1] + ... + f[n]
SumTo(f, n) == IF n <= 0 THEN 0 ELSE f[n] + SumTo(f, n - 1)

VARIABLES
  \* ---- static CANCEL_FLAG and the export supervisor --------------------
  CANCEL_FLAG,      \* ffmpeg.rs:15
  pc,               \* position of each export_project invocation
  gpu_type,         \* export_project's local gpu_type (ffmpeg.rs:490)
  child,            \* the engine process of each invocation
  pending,          \* unread lines in each child's stdout pipe
  fileExists,       \* whether a file exists at each invocation's output_path
  result,           \* what each invocation returned
  cmd,              \* the argument vector each invocation hands to spawn
  errPending,       \* unread chunks in each child's stderr pipe
  \* ---- AppState.ffmpeg : Mutex<FFmpegProcessor> --------------------------
  lock,             \* 0 = free, e = held by invocation e
  poisoned,         \* a holder panicked: every later lock().unwrap() panics
  gpu_checked,
  available_gpu_encoder,
  duration_cache,   \* set of [key, value] entries, one per key
  \* ---- environment --------------------------------------------------------
  now,              \* clock, in ticks
  fileMtime,        \* path -> modification time in ticks, or Absent
  fileDur,          \* path -> the duration a probe of the file reports
  \* ---- the synthesizer's inputs and output --------------------------------
  project,          \* the Project handed to the synthesizer
  callArgs,         \* output container, preview override, use_gpu, preset
  cmdOut,           \* what build_export_command returned
  projOut,          \* what the Project's derived-value methods returned
  \* ---- observation (history) ---------------------------------------------
  probes,           \* detection passes run so far
  firstRet,         \* value returned by the first detect_gpu_encoder call
  lastRet,          \* value returned by the latest detect_gpu_encoder call
  cancelAimed,      \* cancel_export was called since this invocation started
  durCall,          \* the latest get_duration call
  memoTick          \* cache key -> modification time (ticks) when memoized

supVars == <<CANCEL_FLAG, pc, gpu_type, child, pending, fileExists, result,
             cmd, errPending, lock, poisoned, cancelAimed>>
gpuVars == <<gpu_checked, available_gpu_encoder, probes, firstRet, lastRet>>
durVars == <<duration_cache, now, fileMtime, fileDur, durCall, memoTick>>
cmdVars == <<project, callArgs, cmdOut, projOut>>
vars == <<supVars, gpuVars, durVars, cmdVars>>


(***************************************************************************)
(* Capability cache: FFmpegProcessor::detect_gpu_encoder (ffmpeg.rs:87).   *)
(***************************************************************************)
\* the `checks` array, in its priority order (ffmpeg.rs:101-106)
checks == <<"nvidia", "intel", "amd", "vaapi">>
Families == {checks[i] : i \in 1..Len(checks)}
\* What the host answers to one detection pass: whether `ffmpeg -encoders`
\* could be run and, when it could, the families whose encoder is both
\* listed and passes the synthetic encode (the conjunction tested at
\* ffmpeg.rs:109).  The host is asked only when a pass runs.
NoListing == [listing |-> FALSE, usable |-> {}]
ProbeEnvs == {NoListing} \cup [listing : {TRUE}, usable : SUBSET Families]
EnvsFor(called, checked) == IF called /\ ~checked THEN ProbeEnvs ELSE {NoListing}

\* ffmpeg.rs:94-115: the detection pass itself
detection_pass(env) ==
  IF ~env.listing
    THEN None                                            \* `.ok()?`
    ELSE LET hits == {i \in 1..Len(checks) : checks[i] \in env.usable}
         IN  IF hits = {} THEN None ELSE checks[Min(hits)]

\* ffmpeg.rs:92: self.gpu_checked = true
MarkCheckedForgotten == FALSE
MarkChecked == TRUE

\* ffmpeg.rs:87-116 on the cache (checked, avail): the value returned, the
\* cache afterwards, and whether a detection pass ran.
detect_gpu_encoder(checked, avail, env) ==
  IF checked
    THEN [ret |-> avail, checked |-> checked, avail |-> avail, probed |-> FALSE]
    ELSE LET r == detection_pass(env)
         IN  [ret |-> r, checked |-> MarkChecked,
              avail |-> IF r # None THEN r ELSE avail, probed |-> TRUE]

\* One call of detect_gpu_encoder on the shared processor, with the
\* observations the claims are stated on.
DetectStep(env) ==
  LET d == detect_gpu_encoder(gpu_checked, available_gpu_encoder, env)
  IN  /\ gpu_checked' = d.checked
      /\ available_gpu_encoder' = d.avail
      /\ probes' = IF d.probed THEN probes + 1 ELSE probes
      /\ firstRet' = IF firstRet = "unset" THEN d.ret ELSE firstRet
      /\ lastRet' = d.ret

\* the value DetectStep(env) returns
DetectRet(env) == detect_gpu_encoder(gpu_checked, available_gpu_encoder, env).ret

\* ffmpeg.rs:120-126 / 495-501: family -> encoder id
encoder_of(g) ==
  CASE g = "nvidia" -> "h264_nvenc"
    [] g = "amd"    -> "h264_amf"
    [] g = "intel"  -> "h264_qsv"
    [] g = "vaapi"  -> "h264_vaapi"
    [] OTHER        -> "libx264"


(***************************************************************************)
(* Project (models.rs).  A Project is                                      *)
(*   [videos : Seq([path, duration]),                                      *)
(*    audio_tracks : Seq([path, volume, mute, solo]),                      *)
(*    settings : [include_video_audio, include_music, audio_crossfade,     *)
(*                video_crossfade, cut_music_at_end, video_volume]].       *)
(* Volumes are in tenths (1.1 is 11); video_volume is on its 0-100 scale.  *)
(***************************************************************************)
NoIdx == 0 - 1
Tag(s, n) == [s |-> s, n |-> n]
Opt(s) == Tag(s, NoIdx)
Node(op, ins, out, arg) == [op |-> op, ins |-> ins, out |-> out, arg |-> arg]

\* iter().filter(|t| t.solo) and iter().filter(|t| !t.mute), as the
\* ascending sequence of the selected tracks' indices (1-based)
solo_tracks(tracks) ==
  SelectSeq([i \in 1..Len(tracks) |-> i], LAMBDA i : tracks[i].solo)
unmuted_tracks(tracks) ==
  SelectSeq([i \in 1..Len(tracks) |-> i], LAMBDA i : ~tracks[i].mute)

\* models.rs:109-120, as indices into audio_tracks
get_active_tracks_ignoring_solo(tracks) ==
  unmuted_tracks(tracks)
get_active_tracks(tracks) ==
  IF tracks = << >>
    THEN << >>
    ELSE LET solos == solo_tracks(tracks)
         IN  IF solos # << >>
               THEN SelectSeq(solos, LAMBDA i : ~tracks[i].mute)
               ELSE unmuted_tracks(tracks)

\* models.rs:122-130
get_video_duration(p) ==
  IF p.videos = << >>
    THEN 0
    ELSE LET base == SumTo([i \in 1..Len(p.videos) |-> p.videos[i].duration],
                           Len(p.videos))
             overlap == p.settings.video_crossfade
                          * Max2(Len(p.videos) - 1, 0)
         IN  Max2(base - overlap, 0)

\* models.rs:25-31 and ffmpeg.rs:277
effective_volume(t) == IF t.mute THEN 0 ELSE (IF t.volume <= 11 THEN t.volume ELSE 11)

(***************************************************************************)
(* Filter Graph Synthesizer (ffmpeg.rs:271-335).                           *)
(***************************************************************************)
\* ffmpeg.rs:271-298.  tracks: the active tracks' records, in order.
build_audio_crossfade_filter(tracks, crossfade_duration, base_input_index) ==
  LET n == Len(tracks)
      vols == [k \in 1..n |->
                 Node("volume", <<Tag("in:a", base_input_index + (k - 1))>>,
                      Tag("ma", k - 1), effective_volume(tracks[k]))]
      prev(j) == IF j = 1 THEN Tag("ma", 0) ELSE Tag("mx", j - 1)
      folds == [j \in 1..(n - 1) |->
                  Node("acrossfade", <<prev(j), Tag("ma", j)>>, Tag("mx", j),
                       crossfade_duration)]
  IN  IF n = 1
        THEN [parts |-> vols, tag |-> Tag("ma", 0)]
        ELSE [parts |-> vols \o folds,
              tag |-> IF n >= 2 THEN Tag("mx", n - 1) ELSE Tag("ma", 0)]

\* ffmpeg.rs:313,331: the running total `acc` when the loop reaches j
\* (j = 1 .. n-1; clips[j] of the source is clips[j + 1] here)
RECURSIVE acc_unclamped(_, _, _)
acc_unclamped(clips, crossfade_duration, j) ==
  IF j <= 1
    THEN clips[1].duration
    ELSE acc_unclamped(clips, crossfade_duration, j - 1)
           + (clips[j].duration - crossfade_duration)
RECURSIVE acc(_, _, _)
acc(clips, crossfade_duration, j) ==
  IF j <= 1
    THEN clips[1].duration
    ELSE acc(clips, crossfade_duration, j - 1)
           + Max2(clips[j].duration - crossfade_duration, 0)

\* ffmpeg.rs:318
xfade_offset(clips, crossfade_duration, j) ==
  Max2(acc(clips, crossfade_duration, j) - crossfade_duration, 0)

\* ffmpeg.rs:300-335.  Indexing clips[0] of an empty slice panics (line 313).
build_video_crossfade_filter(clips, crossfade_duration) ==
  LET n == Len(clips)
      norm == [k \in 1..(2 * n) |->
                 LET i == (k - 1) \div 2
                 IN  IF k % 2 = 1
                       THEN Node("format,setsar", <<Tag("in:v", i)>>, Tag("v", i), 0)
                       ELSE Node("anull", <<Tag("in:a", i)>>, Tag("va", i), 0)]
      prev_v(j) == IF j = 1 THEN Tag("v", 0) ELSE Tag("vx", j - 1)
      prev_a(j) == IF j = 1 THEN Tag("va", 0) ELSE Tag("vax", j - 1)
      folds == [k \in 1..(2 * (n - 1)) |->
                  LET j == (k + 1) \div 2
                  IN  IF k % 2 = 1
                        THEN Node("xfade", <<prev_v(j), Tag("v", j)>>, Tag("vx", j),
                                  xfade_offset(clips, crossfade_duration, j))
                        ELSE Node("acrossfade", <<prev_a(j), Tag("va", j)>>,
                                  Tag("vax", j), crossfade_duration)]
  IN  CASE n = 1 -> [panicked |-> FALSE, parts |-> norm,
                     tag_vout |-> Tag("v", 0), tag_vaout |-> Tag("va", 0)]
        [] n = 0 -> [panicked |-> TRUE, parts |-> norm,
                     tag_vout |-> Opt(""), tag_vaout |-> Opt("")]
        [] OTHER -> [panicked |-> FALSE, parts |-> norm \o folds,
                     tag_vout |-> Tag("vx", n - 1), tag_vaout |-> Tag("vax", n - 1)]


(***************************************************************************)
(* Command Synthesizer (ffmpeg.rs:236-269, 337-476).                       *)
(***************************************************************************)
Opts(names) == [k \in 1..Len(names) |-> Opt(names[k])]

\* ffmpeg.rs:236-269: (encoder, preset flag, preset table)
get_encoder_config(g) ==
  CASE g = "nvidia" ->
         [encoder |-> "h264_nvenc", flag |-> "-preset",
          presets |-> [ultrafast |-> "p1", fast |-> "p4", balanced |-> "p5", quality |-> "p7"]]
    [] g = "amd" ->
         [encoder |-> "h264_amf", flag |-> "-quality",
          presets |-> [ultrafast |-> "speed", fast |-> "balanced",
                       balanced |-> "balanced", quality |-> "quality"]]
    [] g = "intel" ->
         [encoder |-> "h264_qsv", flag |-> "-preset",
          presets |-> [ultrafast |-> "veryfast", fast |-> "fast",
                       balanced |-> "medium", quality |-> "veryslow"]]
    [] g = "vaapi" ->
         [encoder |-> "h264_vaapi", flag |-> None,
          presets |-> [x \in {} |-> ""]]
    [] OTHER ->
         [encoder |-> "libx264", flag |-> "-preset",
          presets |-> [ultrafast |-> "ultrafast", fast |-> "veryfast",
                       balanced |-> "medium", quality |-> "slow"]]

\* ffmpeg.rs:443-447 / 457-460: "-c:v <encoder>" and the preset flag when the
\* family has one and the table maps the preset
encoder_and_preset(g, effective_preset) ==
  LET c == get_encoder_config(g)
  IN  Opts(<<"-c:v", c.encoder>>)
        \o (IF c.flag # None /\ effective_preset \in DOMAIN c.presets
              THEN Opts(<<c.flag, c.presets[effective_preset]>>)
              ELSE << >>)

\* ffmpeg.rs:366-373
hwaccel_flags(g) ==
  CASE g = "nvidia" -> Opts(<<"-hwaccel", "cuda">>)
    [] g = "intel"  -> Opts(<<"-hwaccel", "qsv">>)
    [] g = "vaapi"  -> Opts(<<"-vaapi_device", "/dev/dri/renderD128">>)
    [] OTHER        -> << >>

\* ffmpeg.rs:349-358: build_export_command's own active-track selection
cmd_active_tracks(p) ==
  IF p.settings.include_music
    THEN LET solos == solo_tracks(p.audio_tracks)
         IN  IF solos # << >>
               THEN SelectSeq(solos, LAMBDA i : ~p.audio_tracks[i].mute)
               ELSE unmuted_tracks(p.audio_tracks)
    ELSE << >>

\* ffmpeg.rs:376-381: "-i <path>" per clip, then per active track
input_args(p, active) ==
  [k \in 1..(2 * Len(p.videos)) |->
     IF k % 2 = 1 THEN Opt("-i") ELSE p.videos[k \div 2].path]
  \o [k \in 1..(2 * Len(active)) |->
        IF k % 2 = 1 THEN Opt("-i") ELSE p.audio_tracks[active[k \div 2]].path]

\* ffmpeg.rs:393
base_idx_zero(p) == 0
base_idx(p) == Len(p.videos)

\* ffmpeg.rs:385
must_reencode(p) == Len(p.videos) > 1 \/ p.settings.video_crossfade > 0

\* ffmpeg.rs:434-468
codec_args(p, webm, preview, g, speed_preset) ==
  IF webm
    THEN Opts(<<"-c:v", "libvpx-vp9", "-b:v", "0", "-crf", "30", "-c:a", "libvorbis">>)
    ELSE (IF must_reencode(p)
            THEN LET effective_preset == IF preview.some THEN "ultrafast" ELSE speed_preset
                 IN  IF g # None
                       THEN encoder_and_preset(g, effective_preset)
                              \o (CASE g = "nvidia" ->
                                         Opts(<<"-rc", "vbr", "-cq", "20", "-b:v", "0">>)
                                    [] g = "amd" ->
                                         Opts(<<"-rc", "vbr_latency", "-qp_p", "20", "-qp_i", "20">>)
                                    [] g = "intel" ->
                                         Opts(<<"-global_quality", "20", "-look_ahead", "1">>)
                                    [] OTHER -> Opts(<<"-qp", "20">>))
                       ELSE encoder_and_preset("cpu", effective_preset)
                              \o Opts(<<"-crf", "20">>)
            ELSE Opts(<<"-c:v", "copy">>))
         \o Opts(<<"-c:a", "aac", "-b:a", "192k">>)

\* ffmpeg.rs:338-476.  g is what line 361 yields: detect_gpu_encoder()'s value
\* when use_gpu, None otherwise.  The result is the argument vector `args`
\* with the joined filter graph kept aside in `graph` (its place in args is
\* the token after "-filter_complex"); panicked = the call unwound instead
\* of returning.
build_export_command(p, webm, preview, g, speed_preset) ==
  LET settings == p.settings
      active == cmd_active_tracks(p)
      v == build_video_crossfade_filter(p.videos, settings.video_crossfade)
      va == Node("volume", <<v.tag_vaout>>, Opt("va"), settings.video_volume)
      owned_tracks == [k \in 1..Len(active) |-> p.audio_tracks[active[k]]]
      a == build_audio_crossfade_filter(owned_tracks, settings.audio_crossfade,
                                        base_idx(p))
      has_music == active # << >>
      trim == has_music /\ settings.cut_music_at_end
      tag_music == IF trim THEN Opt("mus") ELSE a.tag
      music_parts ==
        IF ~has_music THEN << >>
        ELSE a.parts \o (IF trim
                           THEN <<Node("atrim", <<a.tag>>, Opt("mus"),
                                       get_video_duration(p))>>
                           ELSE << >>)
      mix == settings.include_video_audio /\ has_music
      mix_parts == IF mix
                     THEN <<Node("amix", <<Opt("va"), tag_music>>, Opt("aout"), 0)>>
                     ELSE << >>
      tag_final_audio ==
        IF mix THEN Opt("aout")
        ELSE IF settings.include_video_audio THEN Opt("va")
        ELSE IF has_music THEN tag_music
        ELSE Opt("")
      graph == v.parts \o <<va>> \o music_parts \o mix_parts
      args ==
        Opts(<<"ffmpeg", "-y">>)
        \o hwaccel_flags(g)
        \o input_args(p, active)
        \o Opts(<<"-filter_complex", "<graph>">>)
        \o <<Opt("-map"), IF v.tag_vout # Opt("") THEN v.tag_vout ELSE Opt("0:v:0")>>
        \o (IF tag_final_audio # Opt("")
              THEN <<Opt("-map"), tag_final_audio>>
              ELSE <<Opt("-an")>>)
        \o codec_args(p, webm, preview, g, speed_preset)
        \o (IF preview.some THEN <<Opt("-t"), Tag("secs", preview.secs)>> ELSE << >>)
        \o <<Opt("output_path")>>
  IN  IF v.panicked
        THEN [panicked |-> TRUE, args |-> << >>, graph |-> << >>, active |-> active]
        ELSE [panicked |-> FALSE, args |-> args, graph |-> graph, active |-> active]


(***************************************************************************)
(* Export Supervisor (ffmpeg.rs:478-566) and the Tauri command wrappers    *)
(* that take the AppState mutex (ffmpeg.rs:211-234, lib.rs:7-9).           *)
(*                                                                         *)
(* export_project is an async command: invocations run on the runtime's    *)
(* worker threads and nothing in it serialises two of them.  Each          *)
(* invocation e walks                                                      *)
(*   idle -> lock_detect -> detect -> lock_build -> build -> spawn         *)
(*        -> running -> completed | failed | cancelled                     *)
(* or leaves through spawn_failed or wait_failed (Err return) or panicked  *)
(* (unwound).                                                              *)
(* Invocations are numbered in the order they start.                       *)
(***************************************************************************)
NoPreview == [some |-> FALSE, secs |-> 0]
NoResult == [returned |-> "no", success |-> FALSE, cancelled |-> FALSE,
             error |-> None, encoder |-> None, gpu_accelerated |-> FALSE]
\* ffmpeg.rs:25-32, 533-540, 553-560
ExportResult(success, cancelled, error, g) ==
  [returned |-> "Ok", success |-> success, cancelled |-> cancelled,
   error |-> error, encoder |-> encoder_of(g), gpu_accelerated |-> g # None]

Terminal == {"completed", "failed", "cancelled", "spawn_failed", "wait_failed",
             "panicked"}
Active(e) == pc[e] \notin ({"idle"} \cup Terminal)

DefaultSettings ==
  [include_video_audio |-> TRUE, include_music |-> TRUE, audio_crossfade |-> 10,
   video_crossfade |-> 1, cut_music_at_end |-> FALSE, video_volume |-> 100]
Clip(k, d) == [path |-> Tag("video-path", k), duration |-> d]
Track(k, solo, mute) ==
  [path |-> Tag("audio-path", k), volume |-> 10, mute |-> mute, solo |-> solo]
\* the projects handed to export_project: Project::default() and a one-clip one
ExportProjects ==
  { [videos |-> << >>, audio_tracks |-> << >>, settings |-> DefaultSettings],
    [videos |-> <<Clip(0, 1)>>, audio_tracks |-> << >>, settings |-> DefaultSettings] }

\* ffmpeg.rs:487: CANCEL_FLAG.store(false)
ClearedFlag(flag) == FALSE

Start(e) ==
  /\ pc[e] = "idle"
  /\ \A f \in Exports : f < e => pc[f] # "idle"
  /\ CANCEL_FLAG' = ClearedFlag(CANCEL_FLAG)
  /\ cancelAimed' = [cancelAimed EXCEPT ![e] = FALSE]
  /\ \E use_gpu \in BOOLEAN :
       gpu_type' = [gpu_type EXCEPT ![e] = [use_gpu |-> use_gpu, family |-> None]]
  /\ pc' = [pc EXCEPT ![e] = "lock_detect"]
  /\ UNCHANGED <<child, pending, fileExists, result, lock, poisoned>>
  /\ UNCHANGED <<gpuVars, durVars, cmdVars>>
  /\ UNCHANGED <<cmd, errPending>>

\* ffmpeg.rs:491 and :346: state.ffmpeg.lock().unwrap()
Acquire(e, at, next) ==
  /\ pc[e] = at
  /\ lock = 0
  /\ IF poisoned
       THEN /\ pc' = [pc EXCEPT ![e] = "panicked"]
            /\ lock' = lock
       ELSE /\ pc' = [pc EXCEPT ![e] = next]
            /\ lock' = e
  /\ UNCHANGED <<CANCEL_FLAG, gpu_type, child, pending, fileExists, result,
                 poisoned, cancelAimed>>
  /\ UNCHANGED <<gpuVars, durVars, cmdVars>>
  /\ UNCHANGED <<cmd, errPending>>

LockDetect(e) == Acquire(e, "lock_detect", "detect")
LockBuild(e) == Acquire(e, "lock_build", "build")

\* ffmpeg.rs:493 and :476: the MutexGuard is dropped at the end of its scope.
\* The value of `lock` once invocation e's guard is gone.
ReleasedKept(e) == e
Released(e) == 0

\* ffmpeg.rs:490-493
ResolveGpu(e) ==
  /\ pc[e] = "detect"
  /\ lock = e
  /\ IF gpu_type[e].use_gpu
       THEN \E env \in EnvsFor(TRUE, gpu_checked) :
              /\ DetectStep(env)
              /\ gpu_type' = [gpu_type EXCEPT ![e].family = DetectRet(env)]
       ELSE /\ UNCHANGED gpuVars
            /\ gpu_type' = gpu_type
  /\ lock' = Released(e)
  /\ pc' = [pc EXCEPT ![e] = "lock_build"]
  /\ UNCHANGED <<CANCEL_FLAG, child, pending, fileExists, result, poisoned,
                 cancelAimed>>
  /\ UNCHANGED <<durVars, cmdVars>>
  /\ UNCHANGED <<cmd, errPending>>

\* ffmpeg.rs:511: cmd.extend(["-progress", "pipe:1", "-nostats"])
with_progress(args) == args \o Opts(<<"-progress", "pipe:1", "-nostats">>)

\* ffmpeg.rs:503-511: build_export_command under the lock it took at :346,
\* then the progress options
Build(e) ==
  /\ pc[e] = "build"
  /\ lock = e
  /\ \E p \in ExportProjects, env \in EnvsFor(gpu_type[e].use_gpu, gpu_checked) :
       LET g == IF gpu_type[e].use_gpu THEN DetectRet(env) ELSE None
           out == build_export_command(p, FALSE, NoPreview, g, "balanced")
       IN  /\ IF gpu_type[e].use_gpu THEN DetectStep(env) ELSE UNCHANGED gpuVars
           /\ pc' = [pc EXCEPT ![e] = IF out.panicked THEN "panicked" ELSE "spawn"]
           /\ poisoned' = (poisoned \/ out.panicked)
           /\ cmd' = [cmd EXCEPT ![e] = IF out.panicked THEN << >>
                                        ELSE with_progress(out.args)]
  /\ lock' = Released(e)
  /\ UNCHANGED <<CANCEL_FLAG, gpu_type, child, pending, fileExists, result,
                 cancelAimed>>
  /\ UNCHANGED <<durVars, cmdVars>>
  /\ UNCHANGED errPending

\* ffmpeg.rs:516-521
Spawn(e) ==
  /\ pc[e] = "spawn"
  /\ \E ok \in BOOLEAN :
       IF ok
         THEN /\ child' = [child EXCEPT ![e] = "running"]
              /\ pc' = [pc EXCEPT ![e] = "running"]
              /\ result' = result
         ELSE /\ child' = child
              /\ pc' = [pc EXCEPT ![e] = "spawn_failed"]
              /\ result' = [result EXCEPT ![e] = [NoResult EXCEPT !.returned = "Err",
                                                                  !.error = "spawn"]]
  /\ UNCHANGED <<CANCEL_FLAG, gpu_type, pending, fileExists, lock, poisoned,
                 cancelAimed>>
  /\ UNCHANGED <<gpuVars, durVars, cmdVars>>
  /\ UNCHANGED <<cmd, errPending>>

\* The engine: it opens (creates) its output file, writes progress lines to
\* its stdout pipe while there is room, writes log text to its stderr pipe,
\* and exits with some status.  Both pipes are created at ffmpeg.rs:518-519;
\* a write to a full pipe blocks until a reader makes room.
EngineOpenOutput(e) ==
  /\ child[e] = "running"
  /\ ~fileExists[e]
  /\ fileExists' = [fileExists EXCEPT ![e] = TRUE]
  /\ UNCHANGED <<CANCEL_FLAG, pc, gpu_type, child, pending, result, lock,
                 poisoned, cancelAimed>>
  /\ UNCHANGED <<gpuVars, durVars, cmdVars>>
  /\ UNCHANGED <<cmd, errPending>>

EngineEmitLine(e) ==
  /\ child[e] = "running"
  /\ pending[e] < PipeCap
  /\ pending' = [pending EXCEPT ![e] = @ + 1]
  /\ UNCHANGED <<CANCEL_FLAG, pc, gpu_type, child, fileExists, result, lock,
                 poisoned, cancelAimed>>
  /\ UNCHANGED <<gpuVars, durVars, cmdVars>>
  /\ UNCHANGED <<cmd, errPending>>

\* ffmpeg.rs:519: stderr is piped, and nothing between spawn and return reads
\* it, so a write that finds the pipe full never completes.
EngineWriteErr(e) ==
  /\ child[e] = "running"
  /\ IF errPending[e] < PipeCap
       THEN /\ errPending' = [errPending EXCEPT ![e] = @ + 1]
            /\ child' = child
       ELSE /\ errPending' = errPending
            /\ child' = [child EXCEPT ![e] = "blocked"]
  /\ UNCHANGED <<CANCEL_FLAG, pc, gpu_type, pending, fileExists, result, cmd,
                 lock, poisoned, cancelAimed>>
  /\ UNCHANGED <<gpuVars, durVars, cmdVars>>

EngineExit(e) ==
  /\ child[e] = "running"
  /\ \E st \in {"exited_0", "exited_nonzero"} :
       child' = [child EXCEPT ![e] = st]
  /\ UNCHANGED <<CANCEL_FLAG, pc, gpu_type, pending, fileExists, result, lock,
                 poisoned, cancelAimed>>
  /\ UNCHANGED <<gpuVars, durVars, cmdVars>>
  /\ UNCHANGED <<cmd, errPending>>

\* ffmpeg.rs:533-540: the result returned on cancellation
CancelledResultAsSuccess(g) == ExportResult(TRUE, TRUE, None, g)
CancelledResult(g) == ExportResult(FALSE, TRUE, None, g)

\* ffmpeg.rs:527-549: one iteration of the read loop.  kill() is SIGKILL:
\* the child writes nothing afterwards; remove_file is taken to succeed
\* (its error is discarded at ffmpeg.rs:531).  The engine's lines are text
\* (its contract), so reader.lines() yields no Err before the stream ends.
ReadLine(e) ==
  /\ pc[e] = "running"
  /\ pending[e] > 0
  /\ pending' = [pending EXCEPT ![e] = @ - 1]
  /\ IF CANCEL_FLAG
       THEN /\ child' = [child EXCEPT ![e] =
                           IF @ \in {"running", "blocked"} THEN "killed" ELSE @]
            /\ fileExists' = [fileExists EXCEPT ![e] = FALSE]
            /\ result' = [result EXCEPT ![e] = CancelledResult(gpu_type[e].family)]
            /\ pc' = [pc EXCEPT ![e] = "cancelled"]
       ELSE UNCHANGED <<child, fileExists, result, pc>>
  /\ UNCHANGED <<CANCEL_FLAG, gpu_type, lock, poisoned, cancelAimed>>
  /\ UNCHANGED <<gpuVars, durVars, cmdVars>>
  /\ UNCHANGED <<cmd, errPending>>

\* ffmpeg.rs:551-560: the stream ended (the child exited and the pipe is
\* drained); wait(), whose Err is returned by `?`, and report by exit status
StreamEnd(e) ==
  /\ pc[e] = "running"
  /\ pending[e] = 0
  /\ child[e] \in {"exited_0", "exited_nonzero"}
  /\ \E waited \in BOOLEAN :
       LET ok == child[e] = "exited_0"
       IN  IF waited
             THEN /\ result' = [result EXCEPT ![e] =
                                  ExportResult(ok, FALSE,
                                               IF ok THEN None ELSE "exit_code",
                                               gpu_type[e].family)]
                  /\ pc' = [pc EXCEPT ![e] = IF ok THEN "completed" ELSE "failed"]
             ELSE /\ result' = [result EXCEPT ![e] =
                                  [NoResult EXCEPT !.returned = "Err",
                                                   !.error = "wait"]]
                  /\ pc' = [pc EXCEPT ![e] = "wait_failed"]
  /\ UNCHANGED <<CANCEL_FLAG, gpu_type, child, pending, fileExists, lock,
                 poisoned, cancelAimed>>
  /\ UNCHANGED <<gpuVars, durVars, cmdVars>>
  /\ UNCHANGED <<cmd, errPending>>

\* ffmpeg.rs:563-566
cancel_export ==
  /\ CANCEL_FLAG' = TRUE
  /\ cancelAimed' = [e \in Exports |-> cancelAimed[e] \/ Active(e)]
  /\ UNCHANGED <<pc, gpu_type, child, pending, fileExists, result, lock, poisoned>>
  /\ UNCHANGED <<gpuVars, durVars, cmdVars>>
  /\ UNCHANGED <<cmd, errPending>>

\* ffmpeg.rs:216-219: the detect_gpu_encoder command
detect_gpu_encoder_command ==
  /\ lock = 0 /\ ~poisoned
  /\ \E env \in EnvsFor(TRUE, gpu_checked) : DetectStep(env)
  /\ UNCHANGED <<supVars, durVars, cmdVars>>

\* ffmpeg.rs:231-234, 118-133: the get_gpu_info command
get_gpu_info_command ==
  /\ lock = 0 /\ ~poisoned
  /\ \E env \in EnvsFor(TRUE, gpu_checked) :
       /\ DetectStep(env)
       /\ LET gpu == DetectRet(env)
              info == [available |-> gpu # None, gpu_type |-> gpu,
                       encoder |-> IF gpu = None THEN None ELSE encoder_of(gpu)]
          IN  info.available = (info.gpu_type # None)
  /\ UNCHANGED <<supVars, durVars, cmdVars>>


(***************************************************************************)
(* Duration cache (ffmpeg.rs:135-202).  One media file path; its           *)
(* modification time is a SystemTime, here in ticks (TicksPerSec per       *)
(* second); writes stamp the file with the clock.                          *)
(***************************************************************************)
Paths == {"a.mp4"}
Absent == 0 - 1

\* ffmpeg.rs:138: `.as_secs()` of the modification time: whole seconds
as_secs(mtime) == mtime \div TicksPerSec

\* ffmpeg.rs:135-141: format!("{}:{}", path, mtime)
get_cache_key(path, mtime) == <<path, as_secs(mtime)>>

CacheHas(key) == \E en \in duration_cache : en.key = key
CacheGet(key) == (CHOOSE en \in duration_cache : en.key = key).value

\* The environment: time passes, the file is written (created or modified)
\* with new content, the file is removed.
Tick ==
  /\ now < MaxTick
  /\ now' = now + 1
  /\ UNCHANGED <<duration_cache, fileMtime, fileDur, durCall, memoTick>>
  /\ UNCHANGED <<supVars, gpuVars, cmdVars>>

WriteFile(path) ==
  /\ fileMtime[path] # now
  /\ \E d \in 0..MaxProbe :
       fileDur' = [fileDur EXCEPT ![path] = d]
  /\ fileMtime' = [fileMtime EXCEPT ![path] = now]
  /\ UNCHANGED <<duration_cache, now, durCall, memoTick>>
  /\ UNCHANGED <<supVars, gpuVars, cmdVars>>

RemoveFile(path) ==
  /\ fileMtime[path] # Absent
  /\ fileMtime' = [fileMtime EXCEPT ![path] = Absent]
  /\ UNCHANGED <<duration_cache, now, fileDur, durCall, memoTick>>
  /\ UNCHANGED <<supVars, gpuVars, cmdVars>>

\* ffmpeg.rs:221-224, 186-202: the get_duration command.  A probe reports the
\* file's duration, or both probe strategies fail and 0.0 is memoized.
get_duration(path) ==
  /\ lock = 0 /\ ~poisoned
  /\ IF fileMtime[path] = Absent
       THEN /\ durCall' = [path |-> path, existed |-> FALSE, mtime |-> Absent,
                           ret |-> 0, probed |-> FALSE, added |-> FALSE]
            /\ UNCHANGED <<duration_cache, memoTick>>
       ELSE LET cache_key == get_cache_key(path, fileMtime[path])
            IN  IF CacheHas(cache_key)
                  THEN /\ durCall' = [path |-> path, existed |-> TRUE,
                                      mtime |-> fileMtime[path],
                                      ret |-> CacheGet(cache_key),
                                      probed |-> FALSE, added |-> FALSE]
                       /\ UNCHANGED <<duration_cache, memoTick>>
                  ELSE \E duration \in {fileDur[path], 0} :
                         /\ duration_cache' = duration_cache
                              \cup {[key |-> cache_key, value |-> duration]}
                         /\ memoTick' = memoTick
                              \cup {[key |-> cache_key, tick |-> fileMtime[path]]}
                         /\ durCall' = [path |-> path, existed |-> TRUE,
                                        mtime |-> fileMtime[path], ret |-> duration,
                                        probed |-> TRUE, added |-> TRUE]
  /\ UNCHANGED <<now, fileMtime, fileDur>>
  /\ UNCHANGED <<supVars, gpuVars, cmdVars>>

(***************************************************************************)
(* Calls of the synthesizer and of the Project's methods on the current    *)
(* inputs.                                                                 *)
(***************************************************************************)
\* ffmpeg.rs:337-476: the build_export_command command
build_export_command_command ==
  /\ ~cmdOut.done
  /\ lock = 0 /\ ~poisoned
  /\ \E env \in EnvsFor(callArgs.use_gpu, gpu_checked) :
       LET g == IF callArgs.use_gpu THEN DetectRet(env) ELSE None
           out == build_export_command(project, callArgs.webm, callArgs.preview,
                                       g, callArgs.speed_preset)
       IN  /\ IF callArgs.use_gpu THEN DetectStep(env) ELSE UNCHANGED gpuVars
           /\ cmdOut' = [done |-> TRUE, panicked |-> out.panicked,
                         args |-> out.args, graph |-> out.graph,
                         active |-> out.active, g |-> g]
           /\ poisoned' = out.panicked
  /\ UNCHANGED <<CANCEL_FLAG, pc, gpu_type, child, pending, fileExists, result,
                 lock, cancelAimed>>
  /\ UNCHANGED <<project, callArgs, projOut, durVars>>
  /\ UNCHANGED <<cmd, errPending>>

\* models.rs:109-130: Project::get_active_tracks and ::get_video_duration
project_methods ==
  /\ ~projOut.done
  /\ projOut' = [done |-> TRUE,
                 active |-> get_active_tracks(project.audio_tracks),
                 video_duration |-> get_video_duration(project)]
  /\ UNCHANGED <<project, callArgs, cmdOut>>
  /\ UNCHANGED <<supVars, gpuVars, durVars>>

(***************************************************************************)
(* Initial states.                                                         *)
(***************************************************************************)
InitSupervisor ==
  /\ CANCEL_FLAG = FALSE
  /\ pc = [e \in Exports |-> "idle"]
  /\ gpu_type = [e \in Exports |-> [use_gpu |-> FALSE, family |-> None]]
  /\ child = [e \in Exports |-> "none"]
  /\ pending = [e \in Exports |-> 0]
  /\ fileExists = [e \in Exports |-> FALSE]
  /\ result = [e \in Exports |-> NoResult]
  /\ lock = 0
  /\ poisoned = FALSE
  /\ cancelAimed = [e \in Exports |-> FALSE]
  /\ cmd = [e \in Exports |-> << >>]
  /\ errPending = [e \in Exports |-> 0]

\* FFmpegProcessor::new (ffmpeg.rs:48-54)
InitProcessor ==
  /\ duration_cache = {}
  /\ available_gpu_encoder = None
  /\ gpu_checked = FALSE
  /\ probes = 0
  /\ firstRet = "unset"
  /\ lastRet = "unset"
  /\ memoTick = {}
  /\ durCall = [path |-> "", existed |-> FALSE, mtime |-> Absent, ret |-> 0,
                probed |-> FALSE, added |-> FALSE]

InitFiles ==
  /\ now = 0
  /\ fileMtime = [p \in Paths |-> Absent]
  /\ fileDur = [p \in Paths |-> 0]

DefaultCallArgs ==
  [webm |-> FALSE, preview |-> NoPreview, use_gpu |-> FALSE, speed_preset |-> "balanced"]
InitNoCall ==
  /\ cmdOut = [done |-> FALSE]
  /\ projOut = [done |-> FALSE]
InitDefaultProject ==
  /\ project = [videos |-> <<Clip(0, 1)>>, audio_tracks |-> << >>,
                settings |-> DefaultSettings]
  /\ callArgs = DefaultCallArgs
  /\ InitNoCall

\* the timelines the synthesizer is exercised on
ClipSeqs(n, durs) == {[k \in 1..n |-> Clip(k - 1, f[k])] : f \in [1..n -> durs]}
TrackSeqs(n, solos) ==
  {[k \in 1..n |-> Track(k - 1, f[k][1], f[k][2])] :
     f \in [1..n -> solos \X BOOLEAN]}
CrossfadeValues == (0 - 1)..MaxCrossfade

\* (a) every solo/mute pattern, one clip
InitTrackPatterns ==
  /\ \E n \in 0..MaxTracks, im \in BOOLEAN :
       \E tr \in TrackSeqs(n, BOOLEAN) :
         project = [videos |-> <<Clip(0, 1)>>, audio_tracks |-> tr,
                    settings |-> [DefaultSettings EXCEPT !.include_music = im]]
  /\ callArgs = DefaultCallArgs

\* (b) every clip-duration sequence and crossfade, no tracks
InitTimelines ==
  /\ \E n \in 0..MaxClips, c \in CrossfadeValues :
       \E vs \in ClipSeqs(n, 0..MaxDur) :
         project = [videos |-> vs, audio_tracks |-> << >>,
                    settings |-> [DefaultSettings EXCEPT !.video_crossfade = c]]
  /\ callArgs = DefaultCallArgs

\* (c) every clip count, mute pattern and mixing setting
InitWirings ==
  /\ \E n \in 0..MaxClips, m \in 0..MaxTracks, c \in {0, 1},
        iva \in BOOLEAN, im \in BOOLEAN, cut \in BOOLEAN :
       \E vs \in ClipSeqs(n, {1}), tr \in TrackSeqs(m, {FALSE}) :
         project = [videos |-> vs, audio_tracks |-> tr,
                    settings |-> [DefaultSettings EXCEPT
                                    !.video_crossfade = c,
                                    !.include_video_audio = iva,
                                    !.include_music = im,
                                    !.cut_music_at_end = cut]]
  /\ callArgs = DefaultCallArgs

\* (d) every call argument, on zero to two clips with one track
InitCallArgs ==
  /\ \E n \in 0..2, c \in (0 - 1)..1 :
       \E vs \in ClipSeqs(n, {1}) :
         project = [videos |-> vs, audio_tracks |-> <<Track(0, FALSE, FALSE)>>,
                    settings |-> [DefaultSettings EXCEPT !.video_crossfade = c]]
  /\ \E webm \in BOOLEAN, pv \in {NoPreview, [some |-> TRUE, secs |-> 60]},
        use_gpu \in BOOLEAN, sp \in {"balanced", "quality", "custom"} :
       callArgs = [webm |-> webm, preview |-> pv, use_gpu |-> use_gpu,
                   speed_preset |-> sp]

(***************************************************************************)
(* Specifications.                                                         *)
(*   Spec    : the export supervisor, cancel_export and the capability     *)
(*             commands, interleaved.                                      *)
(*   SpecOne : one export_project invocation and cancel_export;            *)
(*             SpecOneLive adds its scheduling (fairness).                 *)
(*   SpecGpu : every caller of detect_gpu_encoder, interleaved.            *)
(*   SpecLock: every taker of the processor mutex, interleaved.            *)
(*   SpecDur : get_duration against a changing file system.                *)
(*   SpecCmd : build_export_command and the Project methods on bounded     *)
(*             timelines.                                                  *)
(***************************************************************************)
Init ==
  /\ InitSupervisor /\ InitProcessor /\ InitFiles /\ InitDefaultProject

Next ==
  \/ \E e \in Exports : Start(e)
  \/ \E e \in Exports : LockDetect(e)
  \/ \E e \in Exports : ResolveGpu(e)
  \/ \E e \in Exports : LockBuild(e)
  \/ \E e \in Exports : Build(e)
  \/ \E e \in Exports : Spawn(e)
  \/ \E e \in Exports : EngineOpenOutput(e)
  \/ \E e \in Exports : EngineEmitLine(e)
  \/ \E e \in Exports : EngineWriteErr(e)
  \/ \E e \in Exports : EngineExit(e)
  \/ \E e \in Exports : ReadLine(e)
  \/ \E e \in Exports : StreamEnd(e)
  \/ cancel_export
  \/ detect_gpu_encoder_command
  \/ get_gpu_info_command

Spec == Init /\ [][Next]_vars

InitDur ==
  /\ InitSupervisor /\ InitProcessor /\ InitFiles /\ InitDefaultProject

NextDur ==
  \/ Tick
  \/ \E path \in Paths : WriteFile(path)
  \/ \E path \in Paths : RemoveFile(path)
  \/ \E path \in Paths : get_duration(path)

SpecDur == InitDur /\ [][NextDur]_vars

\* one export_project invocation, from its start to its return, its engine,
\* and cancel_export
NextOne ==
  \/ Start(1)
  \/ LockDetect(1)
  \/ ResolveGpu(1)
  \/ LockBuild(1)
  \/ Build(1)
  \/ Spawn(1)
  \/ EngineOpenOutput(1)
  \/ EngineEmitLine(1)
  \/ EngineWriteErr(1)
  \/ EngineExit(1)
  \/ ReadLine(1)
  \/ StreamEnd(1)
  \/ cancel_export

SpecOne == Init /\ [][NextOne]_vars

\* SpecOne with its scheduling: the invocation's thread keeps taking its
\* steps (it runs on a runtime worker, and the lock is free whenever it asks
\* for it), and the engine exits unless it stays blocked in a write.
FairOne ==
  /\ WF_vars(LockDetect(1)) /\ WF_vars(ResolveGpu(1))
  /\ WF_vars(LockBuild(1)) /\ WF_vars(Build(1)) /\ WF_vars(Spawn(1))
  /\ WF_vars(ReadLine(1)) /\ WF_vars(StreamEnd(1))
  /\ WF_vars(EngineExit(1))

SpecOneLive == SpecOne /\ FairOne

\* the callers of detect_gpu_encoder, up to the point each last calls it
InitGpu ==
  /\ InitSupervisor /\ InitProcessor /\ InitFiles /\ InitNoCall
  /\ project \in ExportProjects
  /\ \E use_gpu \in BOOLEAN : callArgs = [DefaultCallArgs EXCEPT !.use_gpu = use_gpu]

NextGpu ==
  \/ \E e \in Exports : Start(e)
  \/ \E e \in Exports : LockDetect(e)
  \/ \E e \in Exports : ResolveGpu(e)
  \/ \E e \in Exports : LockBuild(e)
  \/ \E e \in Exports : Build(e)
  \/ detect_gpu_encoder_command
  \/ get_gpu_info_command
  \/ build_export_command_command

SpecGpu == InitGpu /\ [][NextGpu]_vars

\* every taker of the AppState mutex, interleaved: export_project up to its
\* Running state and the four commands that lock the processor
NextLock ==
  \/ \E e \in Exports : Start(e)
  \/ \E e \in Exports : LockDetect(e)
  \/ \E e \in Exports : ResolveGpu(e)
  \/ \E e \in Exports : LockBuild(e)
  \/ \E e \in Exports : Build(e)
  \/ \E e \in Exports : Spawn(e)
  \/ detect_gpu_encoder_command
  \/ get_gpu_info_command
  \/ build_export_command_command
  \/ \E path \in Paths : get_duration(path)

SpecLock == InitGpu /\ [][NextLock]_vars

InitCmd ==
  /\ InitSupervisor /\ InitProcessor /\ InitFiles /\ InitNoCall
  /\ (InitTrackPatterns \/ InitTimelines \/ InitWirings \/ InitCallArgs)

NextCmd ==
  \/ build_export_command_command
  \/ project_methods

SpecCmd == InitCmd /\ [][NextCmd]_vars


(***************************************************************************)
(* Properties.                                                             *)
(***************************************************************************)
Range(seq) == {seq[k] : k \in 1..Len(seq)}

\* C1 (under Spec): once cancel_export has been called after invocation e
\* started, the next progress line e's supervisor reads ends the export as
\* cancelled: the child no longer runs, the result has cancelled = true and
\* success = false, and no file is left at the output path.
C1_CancelHonouredAtNextLine ==
  [][\A e \in Exports :
       (cancelAimed[e] /\ pc[e] = "running" /\ pending'[e] < pending[e])
         => /\ pc'[e] = "cancelled"
            /\ child'[e] # "running"
            /\ result'[e].returned = "Ok"
            /\ result'[e].cancelled /\ ~result'[e].success
            /\ ~fileExists'[e]]_vars

\* C2 (under Spec): at most one export_project invocation is supervising an
\* engine process at any time.
C2_SingleRunningExport ==
  \A e, f \in Exports : (pc[e] = "running" /\ pc[f] = "running") => e = f

\* C3 (under Spec): an invocation returns a cancelled result only if
\* cancel_export was called after that invocation cleared the flag, and a
\* cancel_export called while an invocation is in progress stays set until
\* that invocation has ended.
C3_CancelScopedToExport ==
  \A e \in Exports :
    /\ result[e].cancelled => cancelAimed[e]
    /\ (cancelAimed[e] /\ Active(e)) => CANCEL_FLAG

\* C4 (under SpecGpu): at most one detection pass ever runs; every call of
\* detect_gpu_encoder after the first returns what the first returned; and
\* available_gpu_encoder is set only once gpu_checked is true.
C4_DetectOnce ==
  /\ probes <= 1
  /\ (firstRet # "unset") => (probes = 1 /\ gpu_checked)
  /\ (lastRet # "unset") => (lastRet = firstRet)
  /\ (gpu_checked /\ firstRet # "unset") => available_gpu_encoder = firstRet
  /\ (available_gpu_encoder # None) => gpu_checked

\* C4 witness: an export resolved a family and then built its command, i.e.
\* detect_gpu_encoder was called at least twice and returned a family.
C4_Witness ==
  \E e \in Exports :
    /\ pc[e] = "spawn" /\ gpu_type[e].use_gpu
    /\ gpu_type[e].family \in Families
    /\ lastRet = gpu_type[e].family

\* C5 (under SpecDur): a get_duration call on a missing path returns 0 and
\* adds no entry; a call that answered from the cache returned a value that
\* was memoized for exactly the file's current modification time (a value
\* memoized for an earlier modification time is never returned); and a key
\* is never probed twice.
C5_CacheFollowsMtime ==
  /\ ~durCall.existed => (durCall.ret = 0 /\ ~durCall.added /\ ~durCall.probed)
  /\ (durCall.existed /\ ~durCall.probed) =>
        \E m \in memoTick : /\ m.key = get_cache_key(durCall.path, durCall.mtime)
                            /\ m.tick = durCall.mtime
  /\ \A x, y \in duration_cache : x.key = y.key => x = y


\* ---- the synthesizer's output, read back --------------------------------
Returned == cmdOut.done /\ ~cmdOut.panicked
Tracks == project.audio_tracks
Videos == project.videos
\* a strictly increasing sequence of track indices
Ascending(idx) == \A a, b \in 1..Len(idx) : a < b => idx[a] < idx[b]
\* the paths that follow "-i", in order
InputsOf(args) ==
  LET at == SelectSeq([k \in 1..Len(args) |-> k],
                      LAMBDA k : k > 1 /\ args[k - 1] = Opt("-i"))
  IN  [i \in 1..Len(at) |-> args[at[i]]]
\* the token that follows the first occurrence of opt
ArgAfter(args, opt) ==
  args[Min({k \in 1..Len(args) : args[k] = Opt(opt)}) + 1]
NodesWithOut(graph, tag) == {k \in 1..Len(graph) : graph[k].out = tag}
IsInputRef(tag) == tag.s \in {"in:v", "in:a"}

\* C6 as claimed (under SpecCmd): the active tracks are the unmuted solo
\* tracks when at least one unmuted solo track exists, and all unmuted tracks
\* otherwise, in track order; both for Project::get_active_tracks and for
\* build_export_command with include_music set.
ClaimedActive(activeIdx) ==
  LET unmutedSolo == {i \in 1..Len(Tracks) : Tracks[i].solo /\ ~Tracks[i].mute}
      unmuted == {i \in 1..Len(Tracks) : ~Tracks[i].mute}
  IN  /\ Ascending(activeIdx)
      /\ Range(activeIdx) = IF unmutedSolo # {} THEN unmutedSolo ELSE unmuted
C6_ActiveAsClaimed ==
  /\ projOut.done => ClaimedActive(projOut.active)
  /\ (Returned /\ project.settings.include_music) => ClaimedActive(cmdOut.active)

\* C6 as amended (under SpecCmd): a track is active iff it is unmuted and
\* either it is solo or no track at all (muted or not) is solo; the active
\* tracks keep their track order.  Same for both computations.
AmendedActive(activeIdx) ==
  /\ Ascending(activeIdx)
  /\ \A i \in 1..Len(Tracks) :
       i \in Range(activeIdx)
         <=> (~Tracks[i].mute
                /\ (Tracks[i].solo \/ \A k \in 1..Len(Tracks) : ~Tracks[k].solo))
  /\ Range(activeIdx) \subseteq 1..Len(Tracks)
C6_ActiveTracks ==
  /\ projOut.done => AmendedActive(projOut.active)
  /\ (Returned /\ project.settings.include_music) => AmendedActive(cmdOut.active)

\* C6 witness: both computations ran on tracks whose only solo track is
\* muted while another track is unmuted, and selected nothing.
C6_Witness ==
  /\ projOut.done /\ Returned /\ project.settings.include_music
  /\ \E i, k \in 1..Len(Tracks) :
       /\ Tracks[i].solo /\ Tracks[i].mute
       /\ ~Tracks[k].solo /\ ~Tracks[k].mute
  /\ \A i \in 1..Len(Tracks) : Tracks[i].solo => Tracks[i].mute
  /\ projOut.active = << >> /\ cmdOut.active = << >>

\* C7 (under SpecCmd): for a project with no videos and no audio tracks,
\* get_video_duration is 0 and build_export_command returns an argument
\* vector whose filter graph has no music node.
C7_EmptyProject ==
  (Videos = << >> /\ Tracks = << >>) =>
    /\ projOut.done => projOut.video_duration = 0
    /\ cmdOut.done =>
         /\ ~cmdOut.panicked
         /\ \A k \in 1..Len(cmdOut.graph) :
              cmdOut.graph[k].out.s \notin {"ma", "mx", "mus", "aout"}

\* C8 (under SpecCmd): in every returned argument vector the "-i" inputs are
\* the clip paths in timeline order followed by the active track paths in
\* order; the nodes tagged v<k> and va<k> read input k, the node tagged ma<i>
\* reads input videoCount + i, these are the only nodes that read an input,
\* and every input a node reads was added.
C8_InputOrder ==
  Returned =>
    LET nv == Len(Videos)
        act == cmdOut.active
        g == cmdOut.graph
        inputs == InputsOf(cmdOut.args)
    IN  /\ inputs = [k \in 1..nv |-> Videos[k].path]
                      \o [i \in 1..Len(act) |-> Tracks[act[i]].path]
        /\ \A k \in 0..(nv - 1) :
             /\ \E x \in NodesWithOut(g, Tag("v", k)) : g[x].ins = <<Tag("in:v", k)>>
             /\ \E x \in NodesWithOut(g, Tag("va", k)) : g[x].ins = <<Tag("in:a", k)>>
             /\ Cardinality(NodesWithOut(g, Tag("v", k))) = 1
             /\ Cardinality(NodesWithOut(g, Tag("va", k))) = 1
        /\ \A i \in 0..(Len(act) - 1) :
             /\ \E x \in NodesWithOut(g, Tag("ma", i)) :
                  g[x].ins = <<Tag("in:a", nv + i)>>
             /\ Cardinality(NodesWithOut(g, Tag("ma", i))) = 1
        /\ \A x \in 1..Len(g) : \A r \in Range(g[x].ins) :
             IsInputRef(r) =>
               /\ r.n \in 0..(Len(inputs) - 1)
               /\ g[x].out.s \in {"v", "va", "ma"}
               /\ g[x].out.s = "ma" => r.n = nv + g[x].out.n
               /\ g[x].out.s \in {"v", "va"} => r.n = g[x].out.n

\* C8 witness: a returned command for two or more clips and two or more
\* active tracks, the first track being muted (so the i-th active track is
\* not the i-th track).
C8_Witness ==
  /\ Returned
  /\ Len(Videos) >= 2 /\ Len(cmdOut.active) >= 2
  /\ Tracks[1].mute

\* C9 (under SpecCmd): for a non-.webm output the command selects video
\* stream-copy exactly when there is one clip and the video crossfade is not
\* positive, and when it does, the video stream it maps is not the output of
\* a filter-graph node.
SelectsCopy(args) ==
  \E k \in 1..(Len(args) - 1) : args[k] = Opt("-c:v") /\ args[k + 1] = Opt("copy")
C9_StreamCopyFastPath ==
  (Returned /\ ~callArgs.webm) =>
    /\ SelectsCopy(cmdOut.args)
         <=> (Len(Videos) = 1 /\ ~(project.settings.video_crossfade > 0))
    /\ SelectsCopy(cmdOut.args) =>
         NodesWithOut(cmdOut.graph, ArgAfter(cmdOut.args, "-map")) = {}

\* ---- C10: the xfade offsets ---------------------------------------------
\* the offset of the transition into clip j (0-based j, 1 <= j < N)
EmittedOffsets(j) ==
  {cmdOut.graph[x].arg : x \in {y \in 1..Len(cmdOut.graph) :
      cmdOut.graph[y].op = "xfade" /\ cmdOut.graph[y].out = Tag("vx", j)}}
Dur(i) == Videos[i + 1].duration
Cf == project.settings.video_crossfade
\* d0 + ... + d(j-1) - (j-1)*c - c, floored at 0
ClaimedOffset(j) ==
  Max2(0, SumTo([i \in 1..j |-> Dur(i - 1)], j) - (j - 1) * Cf - Cf)
\* d0 + max(0, d1 - c) + ... + max(0, d(j-1) - c) - c, floored at 0
AmendedOffset(j) ==
  Max2(0, Dur(0) + SumTo([i \in 1..(j - 1) |-> Max2(0, Dur(i) - Cf)], j - 1) - Cf)

\* C10 as claimed (under SpecCmd): for N >= 2 clips the offset of the
\* transition into clip j is max(0, d0 + ... + d(j-1) - (j-1)*c - c) for
\* every duration sequence, and the offsets are non-decreasing in j.
C10_OffsetsAsClaimed ==
  (Returned /\ Len(Videos) >= 2) =>
    \A j \in 1..(Len(Videos) - 1) :
      /\ EmittedOffsets(j) = {ClaimedOffset(j)}
      /\ j > 1 => \A a \in EmittedOffsets(j - 1), b \in EmittedOffsets(j) : a <= b

\* C10 as amended (under SpecCmd): the offset of the transition into clip j
\* is max(0, d0 + sum over 1 <= i < j of max(0, d_i - c) - c); it equals the
\* claimed closed form whenever no clip 1..j-1 is shorter than c; and the
\* offsets are non-decreasing in j.
C10_Offsets ==
  (Returned /\ Len(Videos) >= 2) =>
    \A j \in 1..(Len(Videos) - 1) :
      /\ EmittedOffsets(j) = {AmendedOffset(j)}
      /\ (\A i \in 1..(j - 1) : Dur(i) >= Cf) => EmittedOffsets(j) = {ClaimedOffset(j)}
      /\ j > 1 => \A a \in EmittedOffsets(j - 1), b \in EmittedOffsets(j) : a <= b

\* C10 witness: a returned command for three or more clips in which clip 1
\* is shorter than the crossfade and the offset into clip 2 differs from the
\* claimed closed form.
C10_Witness ==
  /\ Returned /\ Len(Videos) >= 3
  /\ Dur(1) < Cf
  /\ EmittedOffsets(2) # {ClaimedOffset(2)}


\* ---- C11: the wiring of the filter graph --------------------------------
\* the tags that follow a "-map", in order
MappedTags(args) ==
  LET at == SelectSeq([k \in 1..Len(args) |-> k],
                      LAMBDA k : k > 1 /\ args[k - 1] = Opt("-map"))
  IN  [i \in 1..Len(at) |-> args[at[i]]]
\* how many times node x of graph reads tag
ReadsOf(graph, x, tag) ==
  Cardinality({i \in 1..Len(graph[x].ins) : graph[x].ins[i] = tag})
\* how many times tag is read by the nodes after node x, plus how many times
\* it is mapped to the output
Consumers(graph, args, x, tag) ==
  SumTo([y \in 1..Len(graph) |-> IF y > x THEN ReadsOf(graph, y, tag) ELSE 0],
        Len(graph))
    + Cardinality({i \in 1..Len(MappedTags(args)) : MappedTags(args)[i] = tag})

\* C11 (under SpecCmd): in every command returned for one or more clips,
\* every output tag is defined by exactly one node, every tag a node reads
\* (other than an input stream) or a "-map" names is the output of an earlier
\* node, and every node's output tag is consumed exactly once, by a later
\* node or by a "-map".
C11_GraphWired ==
  (Returned /\ Len(Videos) >= 1) =>
    LET g == cmdOut.graph
        args == cmdOut.args
        maps == MappedTags(args)
    IN  /\ \A x \in 1..Len(g) : Cardinality(NodesWithOut(g, g[x].out)) = 1
        /\ \A x \in 1..Len(g) : \A r \in Range(g[x].ins) :
             ~IsInputRef(r) => \E y \in NodesWithOut(g, r) : y < x
        /\ \A i \in 1..Len(maps) : NodesWithOut(g, maps[i]) # {}
        /\ \A x \in 1..Len(g) : Consumers(g, args, x, g[x].out) = 1

\* ---- C12: the outcomes of an invocation ---------------------------------
\* invocation e returns in this step
Returns(e) == pc[e] \notin Terminal /\ pc'[e] \in Terminal
\* the shape of the three ExportResult outcomes and of a spawn failure, for
\* the step in which invocation e returns
OutcomeShape(e) ==
  /\ pc'[e] = "cancelled" =>
       /\ pc[e] = "running"
       /\ result'[e].returned = "Ok"
       /\ result'[e].cancelled /\ ~result'[e].success /\ result'[e].error = None
       /\ ~fileExists'[e]
  /\ pc'[e] = "completed" =>
       /\ pc[e] = "running" /\ pending[e] = 0 /\ child[e] = "exited_0"
       /\ result'[e].returned = "Ok"
       /\ result'[e].success /\ ~result'[e].cancelled /\ result'[e].error = None
       /\ fileExists'[e] = fileExists[e]
  /\ pc'[e] = "failed" =>
       /\ pc[e] = "running" /\ pending[e] = 0 /\ child[e] = "exited_nonzero"
       /\ result'[e].returned = "Ok"
       /\ ~result'[e].success /\ ~result'[e].cancelled
       /\ result'[e].error = "exit_code"
       /\ fileExists'[e] = fileExists[e]
  /\ pc'[e] = "spawn_failed" =>
       /\ pc[e] = "spawn" /\ child'[e] = "none"
       /\ result'[e].returned = "Err"
       /\ fileExists'[e] = fileExists[e]
\* an invocation returns once: after it has, its position and result stay,
\* and its result is written only by the step in which it returns
ReturnsOnce(e) ==
  /\ pc[e] \in Terminal => (pc'[e] = pc[e] /\ result'[e] = result[e])
  /\ result'[e] # result[e] => Returns(e)
  /\ ~(result'[e].success /\ result'[e].cancelled)

EndsWithOutputPath(args) ==
  /\ args # << >>
  /\ args[Len(args)] = Opt("output_path")
  /\ \A k \in 1..(Len(args) - 1) : args[k] # Opt("output_path")

\* C13 (under SpecOne): the argument vector an invocation hands to spawn,
\* i.e. the vector build_export_command returned with the progress options
\* added, ends with the output path and holds every option before it.
C13_OutputPathLast ==
  \A e \in Exports :
    pc[e] \in {"spawn", "running"} \cup (Terminal \ {"panicked"})
      => EndsWithOutputPath(cmd[e])

\* ---- C14: the read loop ends --------------------------------------------
\* C14 (under SpecOneLive): every invocation that is Running eventually
\* returns, whatever the engine writes to its stdout and stderr pipes before
\* it exits; in particular a Running invocation does not stay Running for
\* ever once cancel_export has been called.
C14_RunningEnds ==
  \A e \in Exports : (pc[e] = "running") ~> (pc[e] # "running")

\* ---- C15: the processor lock --------------------------------------------
\* the step by which the holder of the lock gives it back
HolderCanRelease ==
  lock # 0 => (ENABLED ResolveGpu(lock) \/ ENABLED Build(lock))
\* a command that locks the processor can run now
CommandsCanRun ==
  /\ ENABLED detect_gpu_encoder_command
  /\ ENABLED get_gpu_info_command
  /\ \A path \in Paths : ENABLED get_duration(path)
  /\ ~cmdOut.done => ENABLED build_export_command_command

\* C15 (under SpecLock): an export_project invocation holds the processor
\* lock exactly while it resolves the hardware family and while
\* build_export_command runs, so it never asks for the lock while holding it
\* and holds none once the engine is spawned; whoever holds the lock can take
\* the step that releases it, and a waiting invocation gets a free lock (no
\* deadlock); and while an invocation is Running the lock is not held on its
\* behalf: the commands can run as soon as no other invocation is inside one
\* of its two short critical sections.
C15_LockDiscipline ==
  /\ lock \in {0} \cup Exports
  /\ \A e \in Exports : (lock = e) <=> (pc[e] \in {"detect", "build"})
  /\ \A e \in Exports :
       pc[e] \in {"lock_detect", "lock_build", "spawn", "running"} \cup Terminal
         => lock # e
  /\ HolderCanRelease
  /\ \A e \in Exports :
       (lock = 0 /\ pc[e] \in {"lock_detect", "lock_build"})
         => (ENABLED LockDetect(e) \/ ENABLED LockBuild(e))
  /\ (lock = 0 /\ ~poisoned) => CommandsCanRun

\* C15 witness: one invocation is Running while another one holds the lock
\* inside build_export_command.
C15_Witness ==
  \E e, f \in Exports :
    /\ pc[e] = "running"
    /\ pc[f] = "build" /\ lock = f
====
